---- MODULE Spec2Model ----
(***************************************************************************)
(* The apper REST API (src/api/src/fastapi/v1): CRUD endpoints over the    *)
(* tables customers, addresses, contracts, vehicles and ocapi_calculations *)
(* and the mocked financing calculation perform_calculation; and the       *)
(* applications service (src/src/fastapi/v1) over the table applications.  *)
(*                                                                         *)
(* Every endpoint is an `async def` without an await, so a request runs to *)
(* completion on the event loop: one action per endpoint.  All endpoints   *)
(* share the one module-level SQLAlchemy session DB_SESSION                *)
(* (database.py:12).  The engine is created with the pysqlite-only connect *)
(* argument check_same_thread (database.py:10), so the store is SQLite:    *)
(* an INTEGER PRIMARY KEY is assigned max(id)+1, UNIQUE and NOT NULL are   *)
(* enforced, and FOREIGN KEY clauses are enforced only when the build of   *)
(* the SQLite library switches them on (no PRAGMA is issued by the code).  *)
(***************************************************************************)
EXTENDS Integers, Sequences, FiniteSets, TLC

\* ------------------------------------------------------------------ bounds
\* rows the store holds in total, over all tables
MaxRows == 2
\* largest primary key handed out (ids of deleted vehicles are reused)
MaxId == 2
\* largest value of the wall clock (datetime.utcnow().timestamp())
MaxClock == 1
\* longest vehicle.prices list of a calculation request
MaxPrices == 2

\* An Optional[...] value (Python None / SQL NULL, or a value): the empty
\* set, or the set holding the value.
None == {}

Some(v) == {v}

The(o) == CHOOSE v \in o : TRUE

\* ------------------------------------------------------------------ enums
MarketCode ==
    {"at", "au", "be", "ch", "cz", "de", "dk", "es", "fr", "gb", "hu", "in",
     "it", "jp", "kr", "lu", "mx", "my", "nl", "nz", "pl", "pt", "ro", "se",
     "sg", "sk", "th", "tr", "tw", "za"}

CustomerType == {"private", "business"}

VehicleBrand == {"mercedes-benz", "mercedes-amg", "smart", "other"}

VehicleCondition == {"new", "used", "demonstrator"}

\* str.upper() on the market codes the requests below use
Upper(s) ==
    CASE s = "de" -> "DE"
      [] s = "fr" -> "FR"
      [] OTHER -> s

\* --------------------------------------------------------------- numbers
\* A Python float that is a quotient of two naturals, kept exact as a
\* fraction in lowest terms.
RECURSIVE GCD(_, _)
GCD(a, b) == IF b = 0 THEN a ELSE GCD(b, a % b)

Float(n) == [num |-> n, den |-> 1]

TrueDiv(n, d) ==
    LET g == GCD(n, d) IN [num |-> n \div g, den |-> d \div g]

\* f"{x:.2f}": x rounded to the nearest hundredth, as the digits before and
\* after the point.  (For x = n/36 with n a natural, 100*x is never halfway
\* between two integers, so the rounding mode does not matter.)
Format2f(x) ==
    LET cents == (2 * 100 * x.num + x.den) \div (2 * x.den)
    IN  [whole |-> cents \div 100, frac |-> cents % 100]

\* ---------------------------------------------------------------- state
VARIABLES
    customers,      \* table customers: set of rows
    addresses,      \* table addresses
    contracts,      \* table contracts
    vehicles,       \* table vehicles
    calculations,   \* table ocapi_calculations (the calculation audit)
    applications,   \* table applications (of the applications service)
    DB_SESSION,     \* state of the shared session's transaction
    foreign_keys,   \* whether the SQLite build enforces FOREIGN KEY clauses
    clock,          \* the wall clock
    request,        \* the request served last
    response        \* the response to it

tables == <<customers, addresses, contracts, vehicles, calculations, applications>>

vars == <<customers, addresses, contracts, vehicles, calculations, applications,
          DB_SESSION, foreign_keys, clock, request, response>>

Ids(table) == {row.id : row \in table}

TotalRows ==
    Cardinality(customers) + Cardinality(addresses) + Cardinality(contracts)
    + Cardinality(vehicles) + Cardinality(calculations) + Cardinality(applications)

\* INTEGER PRIMARY KEY of SQLite: one more than the largest id in the table
NextId(table) ==
    IF table = {} THEN 1
    ELSE (CHOOSE i \in Ids(table) : \A j \in Ids(table) : j <= i) + 1

\* the bounds of the model leave room for one more row in the table
Room(table) == TotalRows < MaxRows /\ NextId(table) <= MaxId

\* first() of a query filtered by primary key
First(table, id) == {row \in table : row.id = id}

\* ------------------------------------------------- calculation requests
Currencies == {"EUR", "USD"}

PriceIds == {"grossListPrice", "baseListPrice"}

RawValues == {0, 100, 72000}

\* PriceInfo: id, currency, rawValue (charges left at its default)
PriceInfo == [id : PriceIds, currency : Currencies, rawValue : RawValues]

PriceLists == UNION {[1..n -> PriceInfo] : n \in 0..MaxPrices}

\* Customer descriptor of a request: absent, or present with an optional type
Customer == {None} \cup {Some([type |-> t]) : t \in {None} \cup {Some(c) : c \in CustomerType}}

\* FinancialParameter lists (id/value string pairs)
FinancialParameters == {<<>>, <<[id |-> "term", value |-> "48"]>>}

\* f"mock_opaque_{datetime.utcnow().timestamp()}"
OpaqueToken(t) == <<"mock_opaque_", t>>

\* opaque of a request: absent, or the token of a previous response
Opaques == {None, Some(OpaqueToken(0))}

CalculationRequest ==
    [vehicle : [prices : PriceLists], customer : Customer,
     input : FinancialParameters, opaque : Opaques]

\* X-Request-ID header values
RequestIds == {None, Some("req-1")}

\* path values of {market}: two members of MarketCode and one other string
Markets == {"de", "fr", "xx"}

\* ------------------------------------------------- perform_calculation
\* position in prices of the entry the loop breaks on (0: the loop ends
\* without a match, or prices is empty)
GrossListIndex(prices) ==
    LET hits == {i \in 1..Len(prices) : prices[i].id = "grossListPrice"}
    IN  IF hits = {} THEN 0 ELSE CHOOSE i \in hits : \A j \in hits : i <= j

\* mutant of gross_price: the loop without its break, the last match wins
gross_price_of_last(prices) ==
    LET hits == {i \in 1..Len(prices) : prices[i].id = "grossListPrice"}
    IN  IF hits = {} THEN None
        ELSE Some(prices[CHOOSE i \in hits : \A j \in hits : j <= i].rawValue)

gross_price(prices) ==
    IF GrossListIndex(prices) = 0 THEN None
    ELSE Some(prices[GrossListIndex(prices)].rawValue)

\* mutant of currency: the currency of the entry the loop looked at last,
\* whatever its id
currency_of_last_seen(prices) ==
    IF GrossListIndex(prices) # 0 THEN prices[GrossListIndex(prices)].currency
    ELSE IF prices = <<>> THEN "EUR"
    ELSE prices[Len(prices)].currency

currency(prices) ==
    IF GrossListIndex(prices) = 0 THEN "EUR"
    ELSE prices[GrossListIndex(prices)].currency

\* mutant of mock_rate: the price spread over 12 months instead of 36
mock_rate_per_year(price) ==
    IF price # None /\ The(price) # 0 THEN TrueDiv(The(price), 12) ELSE Float(500)

\* (gross_price / 36) if gross_price else 500.0 : None and 0.0 are both falsy
mock_rate(price) ==
    IF price # None /\ The(price) # 0 THEN TrueDiv(The(price), 36) ELSE Float(500)

\* mutant of mock_financial_code: the market in upper case, as in the title
mock_financial_code_upper(market, t) == <<"mock_", Upper(market), "_", t>>

\* f"mock_{market.value}_{datetime.utcnow().timestamp()}"
mock_financial_code(market, t) == <<"mock_", market, "_", t>>

\* f"{mock_rate:.2f} {currency}"
RateString(rate, cur) == <<Format2f(rate), " ", cur>>

FinancingProduct(customer) ==
    [id |-> "1", label |-> "Standard Financing",
     customerType |-> IF customer # None THEN The(customer).type ELSE Some("private"),
     productType |-> "financing", subProductType |-> "financing_standard",
     isCampaign |-> FALSE]

\* mutant of OutputContainer: the container without its term row
OutputContainerOfRate(rate, cur) ==
    [id |-> "output", label |-> "Calculation Result",
     items |-> <<
        [id |-> "monthlyRate", label |-> "Monthly Rate",
         value |-> RateString(rate, cur), businessValue |-> Format2f(rate),
         subtype |-> "currency", unitFormatted |-> cur, highlight |-> Some(TRUE)] >>]

OutputContainer(rate, cur) ==
    [id |-> "output", label |-> "Calculation Result",
     items |-> <<
        [id |-> "monthlyRate", label |-> "Monthly Rate",
         value |-> RateString(rate, cur), businessValue |-> Format2f(rate),
         subtype |-> "currency", unitFormatted |-> cur, highlight |-> Some(TRUE)],
        [id |-> "term", label |-> "Term",
         value |-> "36 months", businessValue |-> "36",
         subtype |-> "number", unitFormatted |-> "months", highlight |-> None] >>]

Link == [id |-> "close", label |-> "Close", url |-> "#", classification |-> "default"]

mock_output(market, calculation_request, t) ==
    LET prices == calculation_request.vehicle.prices
        rate == mock_rate(gross_price(prices))
        cur == currency(prices)
    IN  [financialCode |-> mock_financial_code(market, t),
         currency |-> cur,
         widgetTitle |-> <<"Mercedes-Benz Bank | Calculator [", Upper(market), "]">>,
         rate |-> RateString(rate, cur),
         rateData |-> rate,
         messages |-> <<>>,
         financingProduct |-> FinancingProduct(calculation_request.customer),
         containers |-> <<OutputContainer(rate, cur)>>,
         links |-> <<Link>>]

\* the CalculationResponse; t1 and t2 are the two readings of the clock
CalculationResponse(market, calculation_request, t1, t2) ==
    [output |-> mock_output(market, calculation_request, t1),
     code |-> 200, type |-> "success",
     message |-> "Calculation successful (mock)",
     opaque |-> OpaqueToken(t2)]

\* mutant of OCAPICalculationModel: the market stored as the title shows it
OCAPICalculationModelUpper(id, market, calculation_request, request_id, result) ==
    [id |-> id,
     market |-> Upper(market),
     customer_type |-> IF calculation_request.customer # None
                       THEN The(calculation_request.customer).type ELSE None,
     gross_list_price |-> gross_price(calculation_request.vehicle.prices),
     currency |-> currency(calculation_request.vehicle.prices),
     calculated_rate |-> mock_rate(gross_price(calculation_request.vehicle.prices)),
     financial_code |-> result.output.financialCode,
     request_payload |-> calculation_request,
     response_payload |-> result,
     opaque_token |-> result.opaque,
     request_id |-> request_id]

\* the row handed to DB_SESSION.add (its id is assigned on insert)
OCAPICalculationModel(id, market, calculation_request, request_id, result) ==
    LET prices == calculation_request.vehicle.prices
        customer == calculation_request.customer
    IN  [id |-> id,
         market |-> market,
         customer_type |-> IF customer # None THEN The(customer).type ELSE None,
         gross_list_price |-> gross_price(prices),
         currency |-> currency(prices),
         calculated_rate |-> mock_rate(gross_price(prices)),
         financial_code |-> result.output.financialCode,
         request_payload |-> calculation_request,
         response_payload |-> result,
         opaque_token |-> result.opaque,
         request_id |-> request_id]

\* ------------------------------------------------ requests and responses
Request(op, path, body, header) ==
    [op |-> op, path |-> path, body |-> body, header |-> header]

Response(status_code, body) == [status_code |-> status_code, body |-> body]

\* the session after a commit that failed in its flush: the transaction is
\* rolled back and every later use of the session raises PendingRollbackError
\* until Session.rollback() is called, which no endpoint does
Usable == DB_SESSION = "active"

\* an exception that leaves an endpoint unhandled: 500, nothing stored
Unhandled == Response(500, "Internal Server Error")

NotFound == Response(404, "not found")

\* request validation by the framework: the handler is not entered
Unprocessable == Response(422, "validation error")

\* -------------------------------------------------------------- vehicles
\* A VehicleCreate body: the values of its fields (None by default) and the
\* names of the fields the body set, model_fields_set.  name is required.
VehicleFields == {"name", "fin", "baumuster", "brand", "condition"}

VehicleCreate ==
    {[fields_set |-> VehicleFields,
      name |-> "EQS", fin |-> Some("W1K297"), baumuster |-> Some("297123"),
      brand |-> Some("mercedes-benz"), condition |-> Some("new")],
     [fields_set |-> {"name", "brand", "condition"},
      name |-> "fortwo", fin |-> None, baumuster |-> None,
      brand |-> Some("smart"), condition |-> Some("used")],
     [fields_set |-> {"name", "fin", "brand"},
      name |-> "EQS", fin |-> None, baumuster |-> None,
      brand |-> None, condition |-> None]}

\* the row create_vehicle adds (an enum is stored by its value)
VehicleModel(id, vehicle_data) ==
    [id |-> id, name |-> vehicle_data.name, fin |-> vehicle_data.fin,
     baumuster |-> vehicle_data.baumuster, brand |-> vehicle_data.brand,
     condition |-> vehicle_data.condition]

get_all_vehicles == vehicles

get_vehicle_by_id(vehicle_id) == First(vehicles, vehicle_id)

get_vehicles_by_fin(fin) == {v \in vehicles : v.fin = Some(fin)}

get_vehicles_by_baumuster(baumuster) == {v \in vehicles : v.baumuster = Some(baumuster)}

get_vehicles_by_condition(condition) == {v \in vehicles : v.condition = Some(condition)}

get_vehicles_by_brand(brand) == {v \in vehicles : v.brand = Some(brand)}

\* setattr(db_vehicle, field, value) for every field of
\* vehicle_data.model_dump(exclude_unset=True)
UpdatedVehicle(db_vehicle, vehicle_data) ==
    [id |-> db_vehicle.id,
     name |-> IF "name" \in vehicle_data.fields_set
              THEN vehicle_data.name ELSE db_vehicle.name,
     fin |-> IF "fin" \in vehicle_data.fields_set
             THEN vehicle_data.fin ELSE db_vehicle.fin,
     baumuster |-> IF "baumuster" \in vehicle_data.fields_set
                   THEN vehicle_data.baumuster ELSE db_vehicle.baumuster,
     brand |-> IF "brand" \in vehicle_data.fields_set
               THEN vehicle_data.brand ELSE db_vehicle.brand,
     condition |-> IF "condition" \in vehicle_data.fields_set
                   THEN vehicle_data.condition ELSE db_vehicle.condition]

\* the rows of vehicles after DB_SESSION.delete(db_vehicle) and commit()
DeleteVehicle(rows, db_vehicle) == rows \ {db_vehicle}

create_vehicle_endpoint(vehicle) ==
    /\ Room(vehicles) \/ ~Usable
    /\ request' = Request("createVehicle", None, vehicle, None)
    /\ UNCHANGED <<applications, customers, addresses, contracts, calculations, DB_SESSION,
                   foreign_keys, clock>>
    /\ LET db_vehicle == VehicleModel(NextId(vehicles), vehicle)
       IN  IF Usable
           THEN /\ vehicles' = vehicles \cup {db_vehicle}
                /\ response' = Response(201, db_vehicle)
           ELSE /\ UNCHANGED vehicles
                /\ response' = Unhandled

get_vehicles ==
    /\ request' = Request("getVehicles", None, None, None)
    /\ response' = IF Usable THEN Response(200, get_all_vehicles) ELSE Unhandled
    /\ UNCHANGED <<tables, DB_SESSION, foreign_keys, clock>>

\* a read by id that takes the row it returns out of the table
get_vehicle_by_id_endpoint_taking(vehicle_id) ==
    /\ request' = Request("getVehicleById", vehicle_id, None, None)
    /\ response' =
          IF ~Usable THEN Unhandled
          ELSE IF get_vehicle_by_id(vehicle_id) = None THEN NotFound
          ELSE Response(200, The(get_vehicle_by_id(vehicle_id)))
    /\ vehicles' = IF Usable THEN vehicles \ get_vehicle_by_id(vehicle_id) ELSE vehicles
    /\ UNCHANGED <<applications, customers, addresses, contracts, calculations, DB_SESSION,
                   foreign_keys, clock>>

get_vehicle_by_id_endpoint(vehicle_id) ==
    /\ request' = Request("getVehicleById", vehicle_id, None, None)
    /\ response' =
          IF ~Usable THEN Unhandled
          ELSE IF get_vehicle_by_id(vehicle_id) = None THEN NotFound
          ELSE Response(200, The(get_vehicle_by_id(vehicle_id)))
    /\ UNCHANGED <<tables, DB_SESSION, foreign_keys, clock>>

get_vehicles_by_fin_endpoint(fin) ==
    /\ request' = Request("getVehiclesByFin", fin, None, None)
    /\ response' = IF Usable THEN Response(200, get_vehicles_by_fin(fin)) ELSE Unhandled
    /\ UNCHANGED <<tables, DB_SESSION, foreign_keys, clock>>

get_vehicles_by_baumuster_endpoint(baumuster) ==
    /\ request' = Request("getVehiclesByBaumuster", baumuster, None, None)
    /\ response' = IF Usable THEN Response(200, get_vehicles_by_baumuster(baumuster))
                   ELSE Unhandled
    /\ UNCHANGED <<tables, DB_SESSION, foreign_keys, clock>>

get_vehicles_by_condition_endpoint(condition) ==
    /\ request' = Request("getVehiclesByCondition", condition, None, None)
    /\ response' = IF Usable THEN Response(200, get_vehicles_by_condition(condition))
                   ELSE Unhandled
    /\ UNCHANGED <<tables, DB_SESSION, foreign_keys, clock>>

get_vehicles_by_brand_endpoint(brand) ==
    /\ request' = Request("getVehiclesByBrand", brand, None, None)
    /\ response' = IF Usable THEN Response(200, get_vehicles_by_brand(brand))
                   ELSE Unhandled
    /\ UNCHANGED <<tables, DB_SESSION, foreign_keys, clock>>

update_vehicle_endpoint(vehicle_id, vehicle) ==
    /\ request' = Request("updateVehicle", vehicle_id, vehicle, None)
    /\ UNCHANGED <<applications, customers, addresses, contracts, calculations, DB_SESSION,
                   foreign_keys, clock>>
    /\ IF ~Usable
       THEN /\ UNCHANGED vehicles
            /\ response' = Unhandled
       ELSE IF get_vehicle_by_id(vehicle_id) = None
       THEN /\ UNCHANGED vehicles
            /\ response' = NotFound
       ELSE LET db_vehicle == The(get_vehicle_by_id(vehicle_id))
                updated == UpdatedVehicle(db_vehicle, vehicle)
            IN  /\ vehicles' = (vehicles \ {db_vehicle}) \cup {updated}
                /\ response' = Response(200, updated)

delete_vehicle_endpoint(vehicle_id) ==
    /\ request' = Request("deleteVehicle", vehicle_id, None, None)
    /\ UNCHANGED <<applications, customers, addresses, contracts, calculations, DB_SESSION,
                   foreign_keys, clock>>
    /\ IF ~Usable
       THEN /\ UNCHANGED vehicles
            /\ response' = Unhandled
       ELSE IF get_vehicle_by_id(vehicle_id) = None
       THEN /\ UNCHANGED vehicles
            /\ response' = NotFound
       ELSE /\ vehicles' = DeleteVehicle(vehicles, The(get_vehicle_by_id(vehicle_id)))
            /\ response' = Response(204, None)

\* ------------------------------------------------- /{market}/calculations
\* mutant of AddCalculation: the row replaces the stored rows of its market
ReplaceCalculation(rows, db_calc) ==
    {row \in rows : row.market # db_calc.market} \cup {db_calc}

\* mutant of AddCalculation: the response is returned without the row stored
ReturnBeforeCommit(rows, db_calc) == rows

\* the rows of ocapi_calculations after DB_SESSION.add(db_calc) and commit()
AddCalculation(rows, db_calc) == rows \cup {db_calc}

\* mutant of FailedCommit: the row is stored although commit() raised
FailedCommitStores(rows, db_calc) == rows \cup {db_calc}

\* the rows of ocapi_calculations after DB_SESSION.add(db_calc) and a
\* commit() that raises: the transaction wrote nothing
FailedCommit(rows, db_calc) == rows

\* mutant of ValidMarket: the path parameter declared as a plain string
ValidMarketStr(market) == TRUE

\* market: MarketCode, the path parameter as the framework validates it
ValidMarket(market) == market \in MarketCode

\* the classes of the exceptions a call of perform_calculation can end in:
\* a ValueError, the AttributeError of a failed field extraction, and the
\* PendingRollbackError of a session that cannot be used
Exceptions == {"ValueError", "AttributeError", "PendingRollbackError"}

\* the exception perform_calculation raises, if any: DB_SESSION.commit()
\* raises when the session cannot be used
perform_calculation_raises ==
    IF Usable THEN None ELSE Some("PendingRollbackError")

\* mutant of calculate_financing_except: no `except Exception` clause, every
\* exception but a ValueError leaves the route unhandled
calculate_financing_except_ValueError(e) ==
    IF e = "ValueError" THEN Response(400, "Bad request") ELSE Unhandled

\* the except clauses of the route: ValueError to 400, every other
\* exception to 500
calculate_financing_except(e) ==
    IF e = "ValueError" THEN Response(400, "Bad request")
    ELSE Response(500, "Server error")

calculate_financing(market, calculation_request, x_request_id) ==
    /\ Room(calculations) \/ ~Usable \/ ~ValidMarket(market)
    /\ request' = Request("calculations", market, calculation_request, x_request_id)
    /\ UNCHANGED <<applications, customers, addresses, contracts, vehicles, foreign_keys>>
    /\ IF ~ValidMarket(market)
       THEN /\ response' = Unprocessable
            /\ UNCHANGED <<calculations, DB_SESSION, clock>>
       ELSE \E t1 \in clock..MaxClock : \E t2 \in t1..MaxClock :
            LET result == CalculationResponse(market, calculation_request, t1, t2)
                db_calc == OCAPICalculationModel(NextId(calculations), market,
                               calculation_request, x_request_id, result)
            IN  /\ clock' = t2
                /\ UNCHANGED DB_SESSION
                /\ IF perform_calculation_raises = None
                   THEN /\ calculations' = AddCalculation(calculations, db_calc)
                        /\ response' = Response(200, result)
                   ELSE /\ calculations' = FailedCommit(calculations, db_calc)
                        /\ response' =
                              calculate_financing_except(The(perform_calculation_raises))

\* ------------------------------------------------------------- customers
\* request bodies of POST /customers (Customer: id is a required field)
CustomerBodies == [id : {7}, firstName : {"Ada", "Bo"}]

\* mutant of CustomerModel: the id of the request body passed on to the row
CustomerModelWithGivenId(id, customer_data) ==
    [id |-> customer_data.id, firstName |-> customer_data.firstName]

\* the row create_customer adds: customer_data.id is not passed on
CustomerModel(id, customer_data) ==
    [id |-> id, firstName |-> customer_data.firstName]

get_all_customers == customers

get_customer_by_id(customer_id) == First(customers, customer_id)

get_customers ==
    /\ request' = Request("getCustomers", None, None, None)
    /\ response' = IF Usable THEN Response(200, get_all_customers) ELSE Unhandled
    /\ UNCHANGED <<tables, DB_SESSION, foreign_keys, clock>>

create_customer_endpoint(customer) ==
    /\ Room(customers) \/ ~Usable
    /\ request' = Request("createCustomer", None, customer, None)
    /\ UNCHANGED <<applications, addresses, contracts, vehicles, calculations, DB_SESSION,
                   foreign_keys, clock>>
    /\ LET db_customer == CustomerModel(NextId(customers), customer)
       IN  IF Usable
           THEN /\ customers' = customers \cup {db_customer}
                /\ response' = Response(201, db_customer)
           ELSE /\ UNCHANGED customers
                /\ response' = Unhandled

get_customer_by_id_endpoint(customer_id) ==
    /\ request' = Request("getCustomerById", customer_id, None, None)
    /\ response' =
          IF ~Usable THEN Unhandled
          ELSE IF get_customer_by_id(customer_id) = None THEN NotFound
          ELSE Response(200, The(get_customer_by_id(customer_id)))
    /\ UNCHANGED <<tables, DB_SESSION, foreign_keys, clock>>

\* ------------------------------------------------------------- addresses
\* request bodies of POST /addresses (Address.state is Optional, the column
\* addresses.state is NOT NULL)
AddressBodies == [id : {1}, state : {None, Some("BY")}, customerId : {1, 2}]

AddressModel(id, address_data) ==
    [id |-> id, state |-> address_data.state, customerId |-> address_data.customerId]

\* FOREIGN KEY (customerId) REFERENCES customers (id), where it is enforced
ForeignKeyOk(customerId) == foreign_keys => customerId \in Ids(customers)

\* whether the INSERT of db_address passes the constraints of addresses
AddressInsertOk(db_address) ==
    /\ db_address.state # None
    /\ ForeignKeyOk(db_address.customerId)

get_all_addresses == addresses

get_address_by_id(address_id) == First(addresses, address_id)

get_addresses_by_customer(customer_id) ==
    {a \in addresses : a.customerId = customer_id}

create_address_endpoint(address) ==
    /\ Room(addresses) \/ ~Usable \/ ~AddressInsertOk(AddressModel(NextId(addresses), address))
    /\ request' = Request("createAddress", None, address, None)
    /\ UNCHANGED <<applications, customers, contracts, vehicles, calculations, foreign_keys, clock>>
    /\ LET db_address == AddressModel(NextId(addresses), address)
       IN  IF ~Usable
           THEN /\ UNCHANGED <<addresses, DB_SESSION>>
                /\ response' = Unhandled
           ELSE IF ~AddressInsertOk(db_address)
           THEN /\ UNCHANGED addresses
                /\ DB_SESSION' = "inactive"
                /\ response' = Unhandled
           ELSE /\ addresses' = addresses \cup {db_address}
                /\ UNCHANGED DB_SESSION
                /\ response' = Response(201, db_address)

get_addresses ==
    /\ request' = Request("getAddresses", None, None, None)
    /\ response' = IF Usable THEN Response(200, get_all_addresses) ELSE Unhandled
    /\ UNCHANGED <<tables, DB_SESSION, foreign_keys, clock>>

get_address_by_id_endpoint(address_id) ==
    /\ request' = Request("getAddressById", address_id, None, None)
    /\ response' =
          IF ~Usable THEN Unhandled
          ELSE IF get_address_by_id(address_id) = None THEN NotFound
          ELSE Response(200, The(get_address_by_id(address_id)))
    /\ UNCHANGED <<tables, DB_SESSION, foreign_keys, clock>>

\* ------------------------------------------------------------- contracts
\* request bodies of POST /contracts (Contract: id is a required field, value
\* is a float): contract C-1 of value 19.95, contract C-2 of value 19.999
ContractSamples ==
    {[contractNumber |-> "C-1", value |-> TrueDiv(1995, 100)],
     [contractNumber |-> "C-2", value |-> TrueDiv(19999, 1000)]}

ContractBodies ==
    {[id |-> 1, contractNumber |-> s.contractNumber, value |-> s.value,
      customerId |-> customerId] : s \in ContractSamples, customerId \in {1, 2}}

\* the row create_contract adds (the float is bound to the column as it is)
ContractModel(id, contract_data) ==
    [id |-> id, contractNumber |-> contract_data.contractNumber,
     value |-> contract_data.value, customerId |-> contract_data.customerId]

\* value = Column(Numeric(10, 2)) as a row is loaded: the stored float is
\* formatted with "%.2f" and read as a Decimal of two decimals (no sample
\* value is halfway between two hundredths)
NumericResult(value) ==
    LET hundredths == Format2f(value)
    IN  TrueDiv(100 * hundredths.whole + hundredths.frac, 100)

\* Contract.model_validate(db_contract) of a row loaded from the table
Contract_model_validate(db_contract) ==
    [db_contract EXCEPT !.value = NumericResult(@)]

\* mutant of ContractNumberFree: the column declared without unique=True
ContractNumberUnchecked(rows, contractNumber) == TRUE

\* contractNumber = Column(String, nullable=False, unique=True)
ContractNumberFree(rows, contractNumber) ==
    \A c \in rows : c.contractNumber # contractNumber

\* whether the INSERT of db_contract passes the constraints of contracts
ContractInsertOk(db_contract) ==
    /\ ContractNumberFree(contracts, db_contract.contractNumber)
    /\ ForeignKeyOk(db_contract.customerId)

get_all_contracts == {Contract_model_validate(contract) : contract \in contracts}

get_contract_by_id(contract_id) ==
    {Contract_model_validate(contract) : contract \in First(contracts, contract_id)}

get_contracts_by_customer(customer_id) ==
    {Contract_model_validate(contract) :
        contract \in {c \in contracts : c.customerId = customer_id}}

create_contract_endpoint(contract) ==
    /\ Room(contracts) \/ ~Usable \/ ~ContractInsertOk(ContractModel(NextId(contracts), contract))
    /\ request' = Request("createContract", None, contract, None)
    /\ UNCHANGED <<applications, customers, addresses, vehicles, calculations, foreign_keys, clock>>
    /\ LET db_contract == ContractModel(NextId(contracts), contract)
       IN  IF ~Usable
           THEN /\ UNCHANGED <<contracts, DB_SESSION>>
                /\ response' = Unhandled
           ELSE IF ~ContractInsertOk(db_contract)
           THEN /\ UNCHANGED contracts
                /\ DB_SESSION' = "inactive"
                /\ response' = Unhandled
           ELSE /\ contracts' = contracts \cup {db_contract}
                /\ UNCHANGED DB_SESSION
                /\ response' = Response(201, Contract_model_validate(db_contract))

get_contracts ==
    /\ request' = Request("getContracts", None, None, None)
    /\ response' = IF Usable THEN Response(200, get_all_contracts) ELSE Unhandled
    /\ UNCHANGED <<tables, DB_SESSION, foreign_keys, clock>>

get_contract_by_id_endpoint(contract_id) ==
    /\ request' = Request("getContractById", contract_id, None, None)
    /\ response' =
          IF ~Usable THEN Unhandled
          ELSE IF get_contract_by_id(contract_id) = None THEN NotFound
          ELSE Response(200, The(get_contract_by_id(contract_id)))
    /\ UNCHANGED <<tables, DB_SESSION, foreign_keys, clock>>

\* GET /customers/{customer_id}/addresses returns get_contracts_by_customer
get_customer_addresses(customer_id) ==
    /\ request' = Request("getCustomerAddresses", customer_id, None, None)
    /\ response' =
          IF ~Usable THEN Unhandled
          ELSE IF get_customer_by_id(customer_id) = None THEN NotFound
          ELSE Response(200, get_contracts_by_customer(customer_id))
    /\ UNCHANGED <<tables, DB_SESSION, foreign_keys, clock>>

get_customer_contracts(customer_id) ==
    /\ request' = Request("getCustomerContracts", customer_id, None, None)
    /\ response' =
          IF ~Usable THEN Unhandled
          ELSE IF get_customer_by_id(customer_id) = None THEN NotFound
          ELSE Response(200, get_contracts_by_customer(customer_id))
    /\ UNCHANGED <<tables, DB_SESSION, foreign_keys, clock>>

\* ------------------------------------------------- /health, /calculations
get_health_status ==
    [status |-> "up",
     downstream |-> [i \in 1..5 |->
        [proxy |-> <<"ocapi-v3-", <<"de", "fr", "gb", "at", "ch">>[i], "-prd">>,
         statusCode |-> 200, details |-> None]]]

health_check ==
    /\ request' = Request("health", None, None, None)
    /\ response' = Response(200, get_health_status)
    /\ UNCHANGED <<tables, DB_SESSION, foreign_keys, clock>>

get_all_calculations == calculations

get_calculation_by_id(calculation_id) == First(calculations, calculation_id)

get_calculations_by_market(market) == {c \in calculations : c.market = market}

get_calculations_by_request_id(request_id) ==
    {c \in calculations : c.request_id = Some(request_id)}

get_all_calculations_endpoint ==
    /\ request' = Request("getAllCalculations", None, None, None)
    /\ response' = IF Usable THEN Response(200, get_all_calculations) ELSE Unhandled
    /\ UNCHANGED <<tables, DB_SESSION, foreign_keys, clock>>

get_calculation_by_id_endpoint(calculation_id) ==
    /\ request' = Request("getCalculationById", calculation_id, None, None)
    /\ response' =
          IF ~Usable THEN Unhandled
          ELSE IF get_calculation_by_id(calculation_id) = None THEN NotFound
          ELSE Response(200, The(get_calculation_by_id(calculation_id)))
    /\ UNCHANGED <<tables, DB_SESSION, foreign_keys, clock>>

get_calculations_by_market_endpoint(market) ==
    /\ request' = Request("getCalculationsByMarket", market, None, None)
    /\ response' = IF Usable THEN Response(200, get_calculations_by_market(market))
                   ELSE Unhandled
    /\ UNCHANGED <<tables, DB_SESSION, foreign_keys, clock>>

get_calculations_by_request_id_endpoint(request_id) ==
    /\ request' = Request("getCalculationsByRequestId", request_id, None, None)
    /\ response' = IF Usable THEN Response(200, get_calculations_by_request_id(request_id))
                   ELSE Unhandled
    /\ UNCHANGED <<tables, DB_SESSION, foreign_keys, clock>>

\* ------------------------------------------- the applications service
\* (src/src/fastapi/v1: its own engine and its own session db_session, which
\* no request can leave unusable: name is required by Application, and no
\* other column has a constraint)
\* request bodies of POST /applications (Application: id is a required field)
ApplicationBodies == [id : {7}, name : {"apper"}]

\* mutant of AddApplication: the table holds the newest application only
KeepNewestApplication(rows, db_app) == {db_app}

\* the rows of applications after db_session.add(db_app) and commit()
AddApplication(rows, db_app) == rows \cup {db_app}

\* the row create_application adds: app_data.id is not passed on
ApplicationModel(id, app_data) == [id |-> id, name |-> app_data.name]

get_all_applications == applications

getAllApplications ==
    /\ request' = Request("getApplications", None, None, None)
    /\ response' = Response(200, get_all_applications)
    /\ UNCHANGED <<tables, DB_SESSION, foreign_keys, clock>>

createApplication(app) ==
    /\ Room(applications)
    /\ request' = Request("createApplication", None, app, None)
    /\ applications' =
          AddApplication(applications, ApplicationModel(NextId(applications), app))
    /\ response' = Response(201, ApplicationModel(NextId(applications), app))
    /\ UNCHANGED <<customers, addresses, contracts, vehicles, calculations,
                   DB_SESSION, foreign_keys, clock>>

\* ------------------------------------------------------------ initial state
NoRequest == Request("none", None, None, None)

NoResponse == Response(0, None)

EmptyStore ==
    /\ customers = {}
    /\ addresses = {}
    /\ contracts = {}
    /\ vehicles = {}
    /\ calculations = {}
    /\ applications = {}
    /\ DB_SESSION = "active"
    /\ foreign_keys \in BOOLEAN
    /\ clock = 0

Init ==
    /\ EmptyStore
    /\ request = NoRequest
    /\ response = NoResponse

\* ---------------------------------------------- the calculation on its own
\* The client's calculation request is drawn from all of CalculationRequest
\* and submitted, and submitted again, as the clock moves on.
InitCalc ==
    /\ EmptyStore
    /\ request \in {Request("calculations", m, r, h) :
                    m \in Markets, r \in CalculationRequest, h \in RequestIds}
    /\ response = NoResponse

NextCalc == calculate_financing(request.path, request.body, request.header)

SpecCalc == InitCalc /\ [][NextCalc]_vars

\* --------------------------------------------------------- the whole API
\* ids of path parameters
PathIds == 1..MaxId

\* calculation requests the clients of the whole API send
SampleRequests ==
    {r \in CalculationRequest :
        /\ r.vehicle.prices =
              <<[id |-> "grossListPrice", currency |-> "EUR", rawValue |-> 72000]>>
        /\ r.customer = None
        /\ r.input = <<>>
        /\ r.opaque = None}

Next ==
    \/ get_customers
    \/ \E customer \in CustomerBodies : create_customer_endpoint(customer)
    \/ \E id \in PathIds : get_customer_by_id_endpoint(id)
    \/ \E address \in AddressBodies : create_address_endpoint(address)
    \/ get_addresses
    \/ \E id \in PathIds : get_address_by_id_endpoint(id)
    \/ \E id \in PathIds : get_customer_addresses(id)
    \/ \E vehicle \in VehicleCreate : create_vehicle_endpoint(vehicle)
    \/ get_vehicles
    \/ \E id \in PathIds : get_vehicle_by_id_endpoint(id)
    \/ \E fin \in {"W1K297"} : get_vehicles_by_fin_endpoint(fin)
    \/ \E baumuster \in {"297123"} : get_vehicles_by_baumuster_endpoint(baumuster)
    \/ \E condition \in {"new", "used"} : get_vehicles_by_condition_endpoint(condition)
    \/ \E brand \in {"smart", "mercedes-benz"} : get_vehicles_by_brand_endpoint(brand)
    \/ \E id \in PathIds, vehicle \in VehicleCreate : update_vehicle_endpoint(id, vehicle)
    \/ \E id \in PathIds : delete_vehicle_endpoint(id)
    \/ \E market \in Markets, r \in SampleRequests, h \in RequestIds :
          calculate_financing(market, r, h)
    \/ health_check
    \/ get_all_calculations_endpoint
    \/ \E id \in PathIds : get_calculation_by_id_endpoint(id)
    \/ \E market \in Markets : get_calculations_by_market_endpoint(market)
    \/ \E request_id \in {"req-1"} : get_calculations_by_request_id_endpoint(request_id)
    \/ \E contract \in ContractBodies : create_contract_endpoint(contract)
    \/ get_contracts
    \/ \E id \in PathIds : get_contract_by_id_endpoint(id)
    \/ \E id \in PathIds : get_customer_contracts(id)
    \/ getAllApplications
    \/ \E app \in ApplicationBodies : createApplication(app)

Spec == Init /\ [][Next]_vars

\* ===================================================== properties
\* what the formulas below read off the last calculation
IsCalculation == request.op = "calculations" /\ response.status_code = 200

Prices == request.body.vehicle.prices

Output == response.body.output

\* the audit row of the calculation served last: the newest row
NewestCalculation ==
    CHOOSE row \in calculations : \A other \in calculations : other.id <= row.id

\* positions of the entries of a price list with id "grossListPrice"
GrossListEntries(prices) ==
    {i \in 1..Len(prices) : prices[i].id = "grossListPrice"}

\* the first of them
IsLocated(prices, i) ==
    /\ i \in GrossListEntries(prices)
    /\ \A j \in GrossListEntries(prices) : i <= j

\* the output carries rate x in currency cur: rateData, currency, the rate
\* string and the monthlyRate row
CarriesRate(output, x, cur) ==
    /\ output.rateData = x
    /\ output.currency = cur
    /\ output.rate = <<Format2f(x), " ", cur>>
    /\ output.containers[1].items[1].id = "monthlyRate"
    /\ output.containers[1].items[1].value = <<Format2f(x), " ", cur>>
    /\ output.containers[1].items[1].businessValue = Format2f(x)
    /\ output.containers[1].items[1].unitFormatted = cur

\* C1 as stated: whenever vehicle.prices contains an entry with id
\* "grossListPrice" and a positive rawValue, the response carries the rate
\* rawValue / 36 in that entry's currency.
C1_AsStated ==
    IsCalculation =>
        \A i \in GrossListEntries(Prices) :
            Prices[i].rawValue > 0 =>
                CarriesRate(Output, TrueDiv(Prices[i].rawValue, 36), Prices[i].currency)

\* C1, amended: whenever the first entry of vehicle.prices with id
\* "grossListPrice" has a positive rawValue, output.rateData is that
\* rawValue / 36 and output.currency is that entry's currency, and the rate
\* string and the monthlyRate row carry the same rate, to two decimals, and
\* currency; rawValue 72000 in EUR gives "2000.00 EUR".
C1_LocatedEntryRate ==
    IsCalculation =>
        \A i \in GrossListEntries(Prices) :
            (IsLocated(Prices, i) /\ Prices[i].rawValue > 0) =>
                /\ CarriesRate(Output, TrueDiv(Prices[i].rawValue, 36), Prices[i].currency)
                /\ (Prices[i].rawValue = 72000 /\ Prices[i].currency = "EUR") =>
                      /\ Output.rateData = [num |-> 2000, den |-> 1]
                      /\ Output.rate = <<[whole |-> 2000, frac |-> 0], " ", "EUR">>

C1_Witness ==
    /\ IsCalculation
    /\ request.path = "de"
    /\ Len(Prices) = 2
    /\ Prices[1] = [id |-> "baseListPrice", currency |-> "USD", rawValue |-> 100]
    /\ Prices[2] = [id |-> "grossListPrice", currency |-> "EUR", rawValue |-> 72000]
    /\ Output.rate = <<[whole |-> 2000, frac |-> 0], " ", "EUR">>

\* C2: when no entry of vehicle.prices has id "grossListPrice", the response
\* carries the fallback rate 500.0 in "EUR", and the audit row of the call
\* stores gross_list_price NULL, currency "EUR" and calculated_rate 500.0.
C2_FallbackRate ==
    (IsCalculation /\ GrossListEntries(Prices) = {}) =>
        /\ CarriesRate(Output, [num |-> 500, den |-> 1], "EUR")
        /\ Output.rate = <<[whole |-> 500, frac |-> 0], " ", "EUR">>
        /\ NewestCalculation.response_payload = response.body
        /\ NewestCalculation.gross_list_price = None
        /\ NewestCalculation.currency = "EUR"
        /\ NewestCalculation.calculated_rate = [num |-> 500, den |-> 1]

C2_Witness ==
    /\ IsCalculation
    /\ Prices = <<[id |-> "baseListPrice", currency |-> "USD", rawValue |-> 72000]>>
    /\ Output.currency = "EUR"
    /\ NewestCalculation.gross_list_price = None

\* C3 as claimed: the rate is grossPrice / 36 whenever a "grossListPrice"
\* entry exists, whatever its rawValue (0 included), and 500.0 only when
\* there is none.
C3_AsClaimed ==
    IsCalculation =>
        /\ GrossListEntries(Prices) = {} => Output.rateData = [num |-> 500, den |-> 1]
        /\ \A i \in GrossListEntries(Prices) :
              IsLocated(Prices, i) => Output.rateData = TrueDiv(Prices[i].rawValue, 36)

\* -------------------------------------------------------------- the store
\* the rows of the table a read-by-id endpoint reads, as they are loaded
TableOf(op) ==
    CASE op = "getCustomerById" -> customers
      [] op = "getAddressById" -> addresses
      [] op = "getContractById" -> get_all_contracts
      [] op = "getVehicleById" -> vehicles
      [] op = "getCalculationById" -> calculations

ReadsById ==
    {"getCustomerById", "getAddressById", "getContractById", "getVehicleById",
     "getCalculationById"}

\* C4 as claimed: in every reachable state a read-by-id of a customer,
\* address, contract, vehicle or calculation answers "not found" (404) when
\* the id is not stored, and answers with the stored row when it is.
C4_AsClaimed ==
    request.op \in ReadsById =>
        IF request.path \in Ids(TableOf(request.op))
        THEN /\ response.status_code = 200
             /\ response.body \in TableOf(request.op)
             /\ response.body.id = request.path
        ELSE response.status_code = 404

\* every lookup of vehicles, for every argument, leaves out the vehicle id
AbsentFromLookups(id) ==
    /\ get_vehicle_by_id(id) = None
    /\ id \notin Ids(get_all_vehicles)
    /\ \A v \in VehicleCreate :
          /\ v.fin # None => id \notin Ids(get_vehicles_by_fin(The(v.fin)))
          /\ v.baumuster # None => id \notin Ids(get_vehicles_by_baumuster(The(v.baumuster)))
    /\ \A brand \in VehicleBrand : id \notin Ids(get_vehicles_by_brand(brand))
    /\ \A condition \in VehicleCondition :
          id \notin Ids(get_vehicles_by_condition(condition))

\* C5 as claimed: DELETE /vehicles/{id} of a stored id answers 204 and the
\* vehicle is then absent from every lookup; DELETE of an id that is not
\* stored (deleted before, and not handed out again by a create) answers 404.
C5_AsClaimed ==
    /\ [][request'.op = "deleteVehicle" =>
             IF request'.path \in Ids(vehicles)
             THEN response'.status_code = 204
             ELSE response'.status_code = 404]_vars
    /\ []((request.op = "deleteVehicle" /\ response.status_code = 204)
             => AbsentFromLookups(request.path))

\* C6: no two stored contracts have the same contractNumber, and a
\* create_contract with a contractNumber that a stored contract holds fails
\* and adds no contract.
C6_ContractNumberUnique ==
    /\ [](\A c1, c2 \in contracts : c1.contractNumber = c2.contractNumber => c1 = c2)
    /\ [][(/\ request'.op = "createContract"
           /\ \E c \in contracts : c.contractNumber = request'.body.contractNumber)
          => (response'.status_code >= 400 /\ contracts' = contracts)]_vars

C6_Witness ==
    /\ request.op = "createContract"
    /\ response.status_code = 500
    /\ \E c \in contracts :
          /\ c.contractNumber = request.body.contractNumber
          /\ c.customerId \in Ids(customers)
          /\ request.body.customerId \in Ids(customers)

\* C7: the id of the record a create_customer call returns is assigned by
\* the store (the next id of the table, whatever id the request body gives),
\* and no two stored customers have the same id.
C7_CustomerIdAssigned ==
    /\ [](\A c1, c2 \in customers : c1.id = c2.id => c1 = c2)
    /\ [][(request'.op = "createCustomer" /\ response'.status_code = 201)
          => /\ response'.body.id = Cardinality(customers) + 1
             /\ response'.body.id \notin Ids(customers)
             /\ customers' = customers \cup {response'.body}]_vars

C7_Witness ==
    /\ request.op = "createCustomer"
    /\ response.status_code = 201
    /\ request.body.id = 7
    /\ response.body.id = 2
    /\ Cardinality(customers) = 2

\* C8 as claimed: every stored address and every stored contract has the
\* customerId of a stored customer.
C8_AsClaimed ==
    /\ \A a \in addresses : a.customerId \in Ids(customers)
    /\ \A c \in contracts : c.customerId \in Ids(customers)

\* C9: an audit row, once stored, is never modified or deleted: every row of
\* ocapi_calculations is in the table, with every field as it was, after
\* every API operation.
C9_AuditAppendOnly ==
    [][\A row \in calculations : row \in calculations']_vars

C9_Witness ==
    /\ Cardinality(calculations) = 2
    /\ \E r1, r2 \in calculations : r1.id # r2.id /\ r1.market = r2.market
    /\ request.op = "deleteVehicle"

\* C10: a successful perform_calculation adds exactly one audit row, and the
\* row agrees with the call: market, request_payload, response_payload,
\* financial_code, calculated_rate, currency, gross_list_price, opaque_token.
C10_AuditAgrees ==
    [][(request'.op = "calculations" /\ response'.status_code = 200) =>
        \E row \in calculations' :
            /\ row \notin calculations
            /\ calculations' = calculations \cup {row}
            /\ row.id \notin Ids(calculations)
            /\ row.market = request'.path
            /\ row.request_payload = request'.body
            /\ row.response_payload = response'.body
            /\ row.financial_code = response'.body.output.financialCode
            /\ row.calculated_rate = response'.body.output.rateData
            /\ row.currency = response'.body.output.currency
            /\ row.gross_list_price =
                  {request'.body.vehicle.prices[i].rawValue :
                      i \in {j \in 1..Len(request'.body.vehicle.prices) :
                                IsLocated(request'.body.vehicle.prices, j)}}
            /\ row.opaque_token = response'.body.opaque]_vars

C10_Witness ==
    /\ IsCalculation
    /\ Cardinality(calculations) = 2
    /\ NewestCalculation.response_payload = response.body
    /\ NewestCalculation.gross_list_price = Some(100)
    /\ NewestCalculation.calculated_rate = [num |-> 25, den |-> 9]
    /\ Output.rate = <<[whole |-> 2, frac |-> 78], " ", "USD">>

\* ------------------------------------------- reads by foreign key
\* C11 as claimed, while the session is usable: GET
\* /customers/{customer_id}/addresses answers 404 when no customer has the id,
\* and otherwise answers with exactly the stored addresses whose customerId is
\* customer_id.
C11_AsClaimed ==
    (request.op = "getCustomerAddresses" /\ Usable) =>
        IF request.path \in Ids(customers)
        THEN /\ response.status_code = 200
             /\ response.body = {a \in addresses : a.customerId = request.path}
        ELSE response.status_code = 404

\* C12 as claimed: GET /customers/{customer_id}/contracts answers 404 when no
\* customer has the id, and otherwise answers with exactly the stored
\* contracts whose customerId is customer_id.
C12_AsClaimed ==
    request.op = "getCustomerContracts" =>
        IF request.path \in Ids(customers)
        THEN /\ response.status_code = 200
             /\ response.body = {c \in get_all_contracts : c.customerId = request.path}
        ELSE response.status_code = 404

\* C13 as claimed: in a successful response financingProduct.customerType is
\* the request's customer type when the request gives one, and "private" when
\* it gives no customer descriptor or a descriptor without a type; it is
\* never null.
C13_AsClaimed ==
    IsCalculation =>
        LET customer == request.body.customer
            given == IF customer = None THEN None ELSE The(customer).type
        IN  Output.financingProduct.customerType =
                IF given = None THEN Some("private") ELSE given

\* ------------------------------------------- the calculation response
\* C14: every successful response has code 200 and the message "Calculation
\* successful (mock)", one output container with the two rows monthlyRate and
\* term, in that order, the term being 36 months whatever the request's input
\* list is, and one link, labelled "Close".
C14_ResponseShape ==
    IsCalculation =>
        /\ response.body.code = 200
        /\ response.body.message = "Calculation successful (mock)"
        /\ Len(Output.containers) = 1
        /\ Len(Output.containers[1].items) = 2
        /\ Output.containers[1].items[1].id = "monthlyRate"
        /\ Output.containers[1].items[2].id = "term"
        /\ Output.containers[1].items[2].value = "36 months"
        /\ Output.containers[1].items[2].businessValue = "36"
        /\ Len(Output.links) = 1
        /\ Output.links[1].label = "Close"

C14_Witness ==
    /\ IsCalculation
    /\ request.body.input = <<[id |-> "term", value |-> "48"]>>
    /\ Output.containers[1].items[2].value = "36 months"
    /\ Len(Output.links) = 1

\* C15: the route maps a ValueError of perform_calculation to 400 and every
\* other exception to 500, and no exception of perform_calculation leaves the
\* route unmapped: a calculation for a valid market is answered 200 when
\* perform_calculation returns, and with the mapped 500 when it raises on the
\* session that cannot be used.
C15_ErrorMapping ==
    /\ \A e \in Exceptions :
          calculate_financing_except(e).status_code =
              IF e = "ValueError" THEN 400 ELSE 500
    /\ (request.op = "calculations" /\ request.path \in MarketCode) =>
          IF Usable THEN response.status_code = 200
          ELSE response = Response(500, "Server error")

C15_Witness ==
    /\ request.op = "calculations"
    /\ request.path = "fr"
    /\ ~Usable
    /\ response.status_code = 500
    /\ response.body = "Server error"
    /\ calculations # {}

\* ------------------------------------------------------ writes
\* the stored row with the id
Stored(table, id) == CHOOSE row \in table : row.id = id

\* C16 as claimed: PUT /vehicles/{id} on a stored vehicle answers 200 and
\* overwrites exactly the fields the request provides (a provided null
\* included), leaving the fields not provided, the id and every other vehicle
\* as they were; on an id that is not stored it answers 404 and changes nothing.
C16_AsClaimed ==
    [][request'.op = "updateVehicle" =>
          IF request'.path \in Ids(vehicles)
          THEN /\ response'.status_code = 200
               /\ request'.path \in Ids(vehicles')
               /\ \A f \in VehicleFields :
                     Stored(vehicles', request'.path)[f] =
                         IF f \in request'.body.fields_set
                         THEN request'.body[f]
                         ELSE Stored(vehicles, request'.path)[f]
               /\ vehicles' \ {Stored(vehicles', request'.path)} =
                     vehicles \ {Stored(vehicles, request'.path)}
          ELSE /\ response'.status_code = 404
               /\ vehicles' = vehicles]_vars

\* C17: no API operation updates or deletes a customer, an address, a
\* contract or an application: every stored row of these tables is in its
\* table, with every field as it was, after every API operation.
C17_OnlyGrow ==
    [][/\ \A row \in customers : row \in customers'
       /\ \A row \in addresses : row \in addresses'
       /\ \A row \in contracts : row \in contracts'
       /\ \A row \in applications : row \in applications']_vars

C17_Witness ==
    /\ request.op = "createApplication"
    /\ response.status_code = 201
    /\ response.body.id = 2
    /\ Cardinality(applications) = 2

\* ------------------------------------------- state shared by requests
\* C18 as claimed: requests share no mutable state other than the database:
\* the only thing a request leaves behind for the requests after it is the
\* content of the tables, so the state of the session is after every request
\* what it was before.
C18_AsClaimed ==
    [][DB_SESSION' = DB_SESSION]_vars

\* the operations that write
Writes ==
    {"createCustomer", "createAddress", "createContract", "createVehicle",
     "updateVehicle", "deleteVehicle", "calculations", "createApplication"}

\* C19 as claimed: a write that fails leaves the stored records as they were
\* before the call, and a later valid request behaves as if the failed one
\* had never been made: a create of a customer, which no stored record can
\* make invalid, is answered 201 with the stored record.
C19_AsClaimed ==
    [][/\ (request'.op \in Writes /\ response'.status_code >= 400)
             => tables' = tables
       /\ request'.op = "createCustomer" =>
             /\ response'.status_code = 201
             /\ response'.body \in customers']_vars

\* C20: a calculation request for a market outside MarketCode is refused (422)
\* before perform_calculation and adds no audit row, so every audit row has a
\* market of MarketCode.
C20_MarketAllowList ==
    /\ [](\A row \in calculations : row.market \in MarketCode)
    /\ [][(request'.op = "calculations" /\ request'.path \notin MarketCode)
             => /\ calculations' = calculations
                /\ response'.status_code = 422]_vars

C20_Witness ==
    /\ request.op = "calculations"
    /\ request.path = "xx"
    /\ response.status_code = 422
    /\ Cardinality(calculations) = 1
    /\ \A row \in calculations : row.market = "de"

\* ------------------------------------------- details of the calculation
\* C21: the financial code of a successful calculation is "mock_", the
\* lower-case code of the path market, "_" and a reading of the clock taken
\* during the call, and the audit row of the call stores that same value.
C21_FinancialCode ==
    [][(request'.op = "calculations" /\ response'.status_code = 200) =>
          /\ request'.path \in MarketCode
          /\ \E t \in clock..clock' :
                response'.body.output.financialCode = <<"mock_", request'.path, "_", t>>
          /\ \E row \in calculations' \ calculations :
                row.financial_code = response'.body.output.financialCode]_vars

C21_Witness ==
    /\ IsCalculation
    /\ request.path = "fr"
    /\ clock = 1
    /\ Output.financialCode = <<"mock_", "fr", "_", 1>>
    /\ NewestCalculation.financial_code = <<"mock_", "fr", "_", 1>>
    /\ Output.widgetTitle = <<"Mercedes-Benz Bank | Calculator [", "FR", "]">>

\* C22: when vehicle.prices holds entries with id "grossListPrice", the
\* first of them in list order supplies the gross price and the currency,
\* and the rate is the rate of that one rawValue: no other entry, with
\* whatever id, before or after it, has an effect on rate or currency.
C22_FirstEntryWins ==
    IsCalculation =>
        \A i \in GrossListEntries(Prices) :
            IsLocated(Prices, i) =>
                /\ NewestCalculation.response_payload = response.body
                /\ NewestCalculation.gross_list_price = Some(Prices[i].rawValue)
                /\ NewestCalculation.currency = Prices[i].currency
                /\ Output.currency = Prices[i].currency
                /\ Output.rateData = mock_rate(Some(Prices[i].rawValue))
                /\ Output.rate = <<Format2f(Output.rateData), " ", Prices[i].currency>>

C22_Witness ==
    /\ IsCalculation
    /\ Prices = <<[id |-> "grossListPrice", currency |-> "USD", rawValue |-> 100],
                  [id |-> "grossListPrice", currency |-> "EUR", rawValue |-> 72000]>>
    /\ Output.currency = "USD"
    /\ NewestCalculation.gross_list_price = Some(100)

\* the request without what C23 says the calculation does not read
Stripped(calculation_request) ==
    [calculation_request EXCEPT !.input = <<>>, !.opaque = None]

\* C23 as claimed: the response to a calculation is the response to the same
\* request without its input list and without its opaque token, at the same
\* readings of the clock; and the opaque of the response is newly generated,
\* never the token the request carries.
C23_AsClaimed ==
    IsCalculation =>
        /\ \E t1 \in 0..clock : \E t2 \in t1..clock :
              response.body =
                  CalculationResponse(request.path, Stripped(request.body), t1, t2)
        /\ response.body.opaque \notin request.body.opaque

\* C30 as claimed: opaque tokens identify calculations: no two audit rows
\* written by distinct perform_calculation calls hold the same opaque_token,
\* calls that read the same value of the clock included.
C30_AsClaimed ==
    \A r1 \in calculations : \A r2 \in calculations :
        r1.opaque_token = r2.opaque_token => r1.id = r2.id

\* ------------------------------------------------------ vehicle lookups
VehicleLookups ==
    {"getVehiclesByFin", "getVehiclesByBaumuster", "getVehiclesByCondition",
     "getVehiclesByBrand"}

\* the field a vehicle lookup compares with its argument
LookupField(op) ==
    CASE op = "getVehiclesByFin" -> "fin"
      [] op = "getVehiclesByBaumuster" -> "baumuster"
      [] op = "getVehiclesByCondition" -> "condition"
      [] op = "getVehiclesByBrand" -> "brand"

\* the stored vehicles the lookup of the field for the argument has to return
Matching(rows, field, argument) == {v \in rows : v[field] = Some(argument)}

\* C24 as claimed: each vehicle lookup by fin, baumuster, condition or brand
\* answers 200 with exactly the stored vehicles whose field equals the
\* argument, the empty list when none does (never a 404); and a vehicle created
\* or updated with an enum brand or condition is among the vehicles the lookup
\* for that enum value has to return afterwards.
C24_AsClaimed ==
    [][/\ request'.op \in VehicleLookups =>
             /\ response'.status_code = 200
             /\ response'.body = Matching(vehicles, LookupField(request'.op),
                                          request'.path)
       /\ (request'.op \in {"createVehicle", "updateVehicle"}
             /\ response'.status_code \in {200, 201}) =>
             \A f \in {"brand", "condition"} :
                 (f \in request'.body.fields_set /\ request'.body[f] # None) =>
                     response'.body \in Matching(vehicles', f, The(request'.body[f]))]_vars

\* C25 as claimed: delete_vehicle on a stored id removes exactly that one
\* vehicle, and every other vehicle and every customer, address, contract and
\* audit row is as it was; on an id that is not stored it changes nothing.
C25_AsClaimed ==
    [][request'.op = "deleteVehicle" =>
          /\ vehicles' =
                IF request'.path \in Ids(vehicles)
                THEN vehicles \ {Stored(vehicles, request'.path)}
                ELSE vehicles
          /\ UNCHANGED <<customers, addresses, contracts, calculations>>]_vars

\* ------------------------------------------------------ reads
\* the read operations of the API
Reads ==
    {"getCustomers", "getAddresses", "getContracts", "getVehicles",
     "getAllCalculations", "getApplications"}
    \cup ReadsById
    \cup {"getCustomerAddresses", "getCustomerContracts"}
    \cup VehicleLookups
    \cup {"getCalculationsByMarket", "getCalculationsByRequestId", "health"}

\* C26: every read operation (read-all, read-by-id, read-by-foreign-key, the
\* vehicle lookups, the calculation lookups by id, market or request id, and
\* the health check) leaves every stored row of every table as it was, also
\* when it ends in "not found".
C26_ReadsChangeNothing ==
    [][request'.op \in Reads => tables' = tables]_vars

\* a read by id has ended in "not found" with a vehicle and an audit row
\* stored
C26_Witness ==
    /\ request.op = "getVehicleById"
    /\ request.path = 2
    /\ response.status_code = 404
    /\ Ids(vehicles) = {1}
    /\ calculations # {}

\* ------------------------------------------------------ audit and response
\* C28: the audit row is committed before the calculation response is
\* returned: whenever the calculation endpoint answers 200, this request has
\* stored an audit row that holds the opaque token and the payload of that
\* response; and when adding or committing the audit row raises, the caller
\* gets an error and not the 200 response.
C28_AuditBeforeResponse ==
    [][request'.op = "calculations" =>
          /\ response'.status_code = 200 =>
                \E row \in calculations' \ calculations :
                    /\ row.opaque_token = response'.body.opaque
                    /\ row.response_payload = response'.body
          /\ (ValidMarket(request'.path) /\ perform_calculation_raises # None) =>
                response'.status_code \in {400, 500}]_vars

\* a second calculation has answered 200 and its audit row is stored
C28_Witness ==
    /\ IsCalculation
    /\ Cardinality(calculations) = 2
    /\ NewestCalculation.id = 2
    /\ NewestCalculation.opaque_token = response.body.opaque

\* C29: whenever the calculation endpoint answers with an error (400 or 500,
\* or the 422 of a market that is not allowed), no audit row for that request
\* has been stored: the audit rows are the rows of before the request.
C29_ErrorStoresNothing ==
    [][(request'.op = "calculations" /\ response'.status_code # 200) =>
          calculations' = calculations]_vars

\* a calculation has been answered 500 with an audit row of an earlier
\* request stored
C29_Witness ==
    /\ request.op = "calculations"
    /\ response.status_code = 500
    /\ response.body = "Server error"
    /\ calculations # {}

\* ------------------------------------------------------ create, then read
Creates == {"createCustomer", "createAddress", "createContract", "createVehicle"}

\* the read by id of the entity a create operation creates
ReadByIdOf(op) ==
    CASE op = "createCustomer" -> "getCustomerById"
      [] op = "createAddress" -> "getAddressById"
      [] op = "createContract" -> "getContractById"
      [] op = "createVehicle" -> "getVehicleById"

\* the read-all of the entity a create operation creates
ReadAllOf(op) ==
    CASE op = "createCustomer" -> "getCustomers"
      [] op = "createAddress" -> "getAddresses"
      [] op = "createContract" -> "getContracts"
      [] op = "createVehicle" -> "getVehicles"

\* the fields of a create body that the create function stores
SubmittedFields(op) ==
    CASE op = "createCustomer" -> {"firstName"}
      [] op = "createAddress" -> {"state", "customerId"}
      [] op = "createContract" -> {"contractNumber", "value", "customerId"}
      [] op = "createVehicle" -> VehicleFields

\* C27 as claimed: for customer, address, contract and vehicle, a read by the
\* id a successful create returned, made right after the create, answers with
\* a record whose submitted fields equal the values given to create, and the
\* read-all of the entity holds exactly one record of that id, with these
\* values.
C27_AsClaimed ==
    [][(request.op \in Creates /\ response.status_code = 201) =>
          /\ (request'.op = ReadByIdOf(request.op) /\ request'.path = response.body.id) =>
                /\ response'.status_code = 200
                /\ \A f \in SubmittedFields(request.op) :
                      response'.body[f] = request.body[f]
          /\ request'.op = ReadAllOf(request.op) =>
                /\ response'.status_code = 200
                /\ Cardinality({r \in response'.body : r.id = response.body.id}) = 1
                /\ \A r \in response'.body :
                      r.id = response.body.id =>
                          \A f \in SubmittedFields(request.op) : r[f] = request.body[f]]_vars

====
